---- MODULE Spec2Model ----
(***************************************************************************)
(* Click simulation of sw_fastedit: the interaction loop                   *)
(* (interaction.py, Interaction.__call__) and the click transforms         *)
(* (transforms.py: AddEmptySignalChannels, FindDiscrepancyRegions,         *)
(* AddGuidance, AddGuidanceSignal) for one sample per call.                *)
(*                                                                         *)
(* Tensors are functions over the voxels of a small volume.  Probabilities *)
(* and losses are percentages (1.0 is 100).  Signal values are fixed-point *)
(* numbers in units of 1/One; NaN is the distinguished value NaN.          *)
(***************************************************************************)
EXTENDS Bags, Integers, Sequences, FiniteSets, TLC

\* ------------------------------------------------------------ bounds
MaxInteractions == 2      \* largest max_interactions an episode is configured with
MaxRecord == 2            \* longest per-label click list of a stored click record
MaxSeeds == 3             \* most points of a GuidanceSet handed to the renderer alone
One == 1000               \* fixed-point unit of the signal values

\* ------------------------------------------------- program constants
HardCap == 1000           \* assert iteration < 1000
DeBladder == 80           \* first slices of the depth axis removed
DeBrain == 40             \* last slices of the depth axis removed
NumberIntensityCh == 1    \* AddGuidanceSignal.number_intensity_ch

\* ------------------------------------------------------------ volume
Shape == <<1, 1, 3>>      \* spatial shape (H, W, D) of the sample
Voxels == {<<x, y, z>> : x \in 0..(Shape[1] - 1), y \in 0..(Shape[2] - 1), z \in 0..(Shape[3] - 1)}
NaN == 0 - 1
None == <<>>              \* Python's None where a guidance index is expected

Zeros == [v \in Voxels |-> 0]
\* torch.sum: the positive entries counted as a bag, less the negative ones
Sum(t) == LET pos == [v \in {u \in DOMAIN t : t[u] > 0} |-> t[v]]
              neg == [v \in {u \in DOMAIN t : t[u] < 0} |-> 0 - t[v]]
          IN BagCardinality(pos) - BagCardinality(neg)
Max(a, b) == IF a >= b THEN a ELSE b
Min(a, b) == IF a <= b THEN a ELSE b
Abs(a) == IF a >= 0 THEN a ELSE 0 - a
MaxOf(t) == CHOOSE m \in {t[v] : v \in DOMAIN t} : \A v \in DOMAIN t : t[v] <= m
MinOf(t) == CHOOSE m \in {t[v] : v \in DOMAIN t} : \A v \in DOMAIN t : t[v] >= m
Spatial(p) == <<p[Len(p) - 2], p[Len(p) - 1], p[Len(p)]>>
InVolume(p) == Len(p) = 4 /\ Spatial(p) \in Voxels

\* np.random.choice([True, False], p=[p, 1 - p]) and np.random.rand() < p
Bernoulli(p) == IF p >= 100 THEN {TRUE} ELSE IF p <= 0 THEN {FALSE} ELSE BOOLEAN

\* ----------------------------------------------------- configuration
LabelNames == <<[key |-> "tumor", val |-> 1], [key |-> "background", val |-> 0]>>
KeysOf(names) == {names[i].key : i \in 1..Len(names)}

DefaultConfig ==
  [ \* Interaction.__init__
    max_interactions |-> 1,
    click_generation_strategy |-> "GLOBAL_CORRECTIVE",
    stopping_criterion |-> "MAX_ITER",
    iteration_probability |-> 50,
    loss_stopping_threshold |-> 10,
    deepgrow_probability |-> 100,
    non_interactive |-> FALSE,
    output_dir |-> "None",
    load_from_json |-> FALSE,
    \* AddGuidance.__init__
    replay |-> FALSE,
    center_click |-> FALSE,
    random_click |-> FALSE,
    click_noise |-> FALSE,
    noise_level |-> 1,
    noise_probability |-> 25,
    systematic_error |-> FALSE,
    systematic_error_probability |-> 25,
    intensity_based |-> FALSE,
    uncertainty_based |-> FALSE,
    patch_size |-> <<1, 1, 1>>,
    \* AddGuidanceSignal.__init__
    sigma |-> 1,
    disks |-> FALSE,
    gdt |-> FALSE,
    \* NormalizeLabelsInDatasetd: data[LABELS_KEY]
    label_names |-> LabelNames,
    \* what the external loss function and metric may return
    losses |-> {100},
    metrics |-> {50} ]

VARIABLES
  cfg,             \* the constructor arguments (never change)
  intensity,       \* the raw intensity volume loaded for the sample (never changes)
  label,           \* batchdata["label"]: the LabelMap
  image,           \* batchdata["image"]: the Volume, a sequence of channels
  pred,            \* batchdata["pred"], discretised: the PredictionMap
  discrepancy,     \* data["discrepancy"]: label key -> <<FN, FP>>
  guidance,        \* data[key_label]: label key -> sequence of GuidancePoints
  gkeys,           \* the label keys present in the batch data
  record,          \* the stored click record read in replay mode
  uncertainty,     \* the externally supplied uncertainty map
  iteration,       \* Interaction.__call__: iteration
  last_dice_loss,  \* Interaction.__call__: last_dice_loss
  dice_scores,     \* Interaction.__call__: dice_scores
  pc,              \* position in Interaction.__call__
  log              \* what the outside world has seen of this call

vars == <<cfg, intensity, label, image, pred, discrepancy, guidance, gkeys, record, uncertainty,
          iteration, last_dice_loss, dice_scores, pc, log>>

\* ------------------------------------------- FindDiscrepancyRegions
\* t[t != value] = c
SetWhereNot(t, value, c) == [v \in DOMAIN t |-> IF t[v] # value THEN c ELSE t[v]]
\* (t > 0.5).to(dtype=torch.float32)
Binarize(t) == [v \in DOMAIN t |-> IF 2 * t[v] > 1 THEN 1 ELSE 0]
\* 1 - t
Invert(t) == [v \in DOMAIN t |-> 1 - t[v]]

disparity(l, p) ==
  <<[v \in DOMAIN l |-> IF l[v] - p[v] > 0 THEN 1 ELSE 0],     \* pos_disparity, FN
    [v \in DOMAIN l |-> IF l[v] - p[v] < 0 THEN 1 ELSE 0]>>    \* neg_disparity, FP

\* the binarisation of a non-background label: t[t != label_value] = 0; t > 0.5
ForegroundBin(t, label_value) == Binarize(SetWhereNot(t, label_value, 0))

BackgroundBinNoInvert(t, label_value) == Binarize(SetWhereNot(t, label_value, 1))
\* the binarisation of the background: t[t != label_value] = 1; t = 1 - t; t > 0.5
BackgroundBin(t, label_value) == Binarize(Invert(SetWhereNot(t, label_value, 1)))

LabelBin(t, entry) ==
  IF entry.key # "background" THEN ForegroundBin(t, entry.val) ELSE BackgroundBin(t, entry.val)

EntryOf(names, key) == names[CHOOSE i \in 1..Len(names) : names[i].key = key]

\* all_discrepancies of FindDiscrepancyRegions.__call__
FindDiscrepancyRegions(lab, prd, names) ==
  [key \in KeysOf(names) |->
     disparity(LabelBin(lab, EntryOf(names, key)), LabelBin(prd, EntryOf(names, key)))]

\* What a tensor the transform binarises in place, without torch.clone, would hold
\* after the loop over the labels.
RECURSIVE BinarisedInPlace(_, _, _)
BinarisedInPlace(t, names, i) ==
  IF i > Len(names) THEN t
  ELSE BinarisedInPlace(
         SetWhereNot(t, names[i].val, IF names[i].key # "background" THEN 0 ELSE 1),
         names, i + 1)
WithoutClone(t, names) == BinarisedInPlace(t, names, 1)
\* The transform works on torch.clone(data[key].detach()): data[key] is as it was.
AfterClone(t, names) == t

\* ------------------------------------------------ AddGuidance: sampling
SqDist(u, v) ==
  (u[1] - v[1]) * (u[1] - v[1]) + (u[2] - v[2]) * (u[2] - v[2]) + (u[3] - v[3]) * (u[3] - v[3])
Support(t) == {v \in DOMAIN t : t[v] > 0}

\* monai.transforms.utils.distance_transform_edt, squared: the distance of a
\* voxel of the mask to the nearest voxel outside it (0 outside the mask).
distance_transform_edt(mask) ==
  LET outside == {u \in DOMAIN mask : mask[u] = 0}
      far == 1 + Shape[1] * Shape[1] + Shape[2] * Shape[2] + Shape[3] * Shape[3]
  IN [v \in DOMAIN mask |->
        IF mask[v] = 0 THEN 0
        ELSE IF outside = {} THEN far
        ELSE LET ds == {SqDist(u, v) : u \in outside}
             IN CHOOSE d \in ds : \A e \in ds : d <= e]

\* sw_fastedit.utils.distance_transform.get_random_choice_from_tensor: None
\* when the tensor sums to zero, else the index [0, x, y, z] of a voxel with a
\* positive value, drawn with a probability that grows with the value.
get_random_choice_from_tensor(t) ==
  IF Sum(t) <= 0 THEN {None} ELSE {<<0>> \o v : v \in Support(t)}

\* cc3d.largest_k(comps, k=1, connectivity=6, delta=0)
Adjacent6(u, v) == Abs(u[1] - v[1]) + Abs(u[2] - v[2]) + Abs(u[3] - v[3]) = 1
RECURSIVE Grow(_, _)
Grow(S, M) ==
  LET N == S \cup {v \in M : \E u \in S : Adjacent6(u, v)}
  IN IF N = S THEN S ELSE Grow(N, M)
Components(mask) == {Grow({v}, Support(mask)) : v \in Support(mask)}
largest_k(mask) ==
  {C \in Components(mask) : \A C2 \in Components(mask) : Cardinality(C2) <= Cardinality(C)}

\* np.unravel_index(np.argmax(t), t.shape) over the voxels S: the first
\* largest value in C order.
FlatIndex(v) == (v[1] * Shape[2] + v[2]) * Shape[3] + v[3]
ArgMax(t, S) ==
  CHOOSE v \in S : \A u \in S : t[u] < t[v] \/ (t[u] = t[v] /\ FlatIndex(v) <= FlatIndex(u))

\* center_click: the skeleton of the largest component (skimage's skeletonize:
\* some non-empty part of it), weighted by the distance transform; arg-max.
CenterClick(pos) ==
  LET distance == distance_transform_edt(pos)
  IN IF Support(pos) = {} THEN {<<0, 0, 0, 0>>}
     ELSE {<<0>> \o ArgMax(distance, skeleton) :
             skeleton \in UNION {SUBSET C \ {{}} : C \in largest_k(pos)}}

\* find_guidance, lines 464-486: the base strategy
BaseClickOnLabel(c, pos, lab) == get_random_choice_from_tensor(lab)
BaseClick(c, pos, lab) ==
  IF c.center_click THEN CenterClick(pos)
  ELSE IF c.random_click THEN get_random_choice_from_tensor(lab)
  ELSE get_random_choice_from_tensor(distance_transform_edt(pos))

\* find_guidance, lines 492-513: the region a systematic error is drawn from
\* the extent of a tensor along the depth axis
Depth(t) == Cardinality({v[3] : v \in DOMAIN t})
InBandWithBrain(v, depth) == v[3] >= DeBladder
\* t[:, :, :, :80] = 0 and t[:, :, :, -40:] = 0 leave the slices in between
InBand(v, depth) == v[3] >= DeBladder /\ v[3] < depth - DeBrain
UncertaintyRegion(lab, unc) ==
  [v \in DOMAIN lab |->
     IF lab[v] = 0 /\ InBand(v, Depth(lab)) /\ unc[v] = 1 THEN 1 ELSE 0]
\* (label == 0) * (image >= label_mean), first channel, band removed; an
\* empty foreground has a NaN mean, and no voxel compares >= to NaN
HighUptakeRegion(img, lab) ==
  LET inside == {v \in DOMAIN lab : lab[v] = 1}
      total == Sum([v \in inside |-> img[1][v]])
      depth == Depth(lab)
  IN [v \in DOMAIN lab |->
        IF /\ inside # {}
           /\ lab[v] = 0
           /\ img[1][v] * Cardinality(inside) >= total
           /\ InBand(v, depth)
        THEN 1 ELSE 0]
SystematicRegion(c, img, lab, unc) ==
  IF c.intensity_based
  THEN IF c.uncertainty_based
       THEN [v \in DOMAIN lab |-> HighUptakeRegion(img, lab)[v] * UncertaintyRegion(lab, unc)[v]]
       ELSE HighUptakeRegion(img, lab)
  ELSE UncertaintyRegion(lab, unc)

\* np.insert(np.random.randint(-noise_level, noise_level, 3), 0, 0)
NoiseOffsetsClosed(c) ==
  {<<0, a, b, d>> : a \in (0 - c.noise_level)..c.noise_level,
                    b \in (0 - c.noise_level)..c.noise_level,
                    d \in (0 - c.noise_level)..c.noise_level}
NoiseOffsets(c) ==
  {<<0, a, b, d>> : a \in (0 - c.noise_level)..(c.noise_level - 1),
                    b \in (0 - c.noise_level)..(c.noise_level - 1),
                    d \in (0 - c.noise_level)..(c.noise_level - 1)}
AddOffset(p, n) == [i \in 1..4 |-> p[i] + n[i]]

Picked(idx, syst, noise) == [idx |-> idx, err |-> FALSE, syst |-> syst, noise |-> noise]
Raised == [idx |-> None, err |-> TRUE, syst |-> FALSE, noise |-> FALSE]

\* find_guidance, lines 488-513: the systematic error
WithSystematicError(c, base, img, lab, unc, key_label) ==
  IF ~c.systematic_error THEN {Picked(b, FALSE, FALSE) : b \in base}
  ELSE IF ~(c.uncertainty_based \/ c.intensity_based) THEN {Raised}
  ELSE UNION {
         IF fire /\ key_label # "background"
         THEN {Picked(r, TRUE, FALSE) :
                 r \in get_random_choice_from_tensor(SystematicRegion(c, img, lab, unc))}
         ELSE {Picked(b, FALSE, FALSE) : b \in base}
         : fire \in Bernoulli(c.systematic_error_probability)}

\* find_guidance, lines 520-523: the click noise
WithNoise(c, picks) ==
  IF ~c.click_noise THEN picks
  ELSE UNION {
         UNION {
           IF ~fire \/ p.err THEN {p}
           ELSE IF p.idx = None THEN {Raised}
           ELSE {Picked(AddOffset(p.idx, n), p.syst, TRUE) : n \in NoiseOffsets(c)}
           : fire \in Bernoulli(c.noise_probability)}
         : p \in picks}

\* AddGuidance.find_guidance: every t_index the call can return
find_guidance(c, pos, img, lab, unc, key_label) ==
  WithNoise(c, WithSystematicError(c, BaseClick(c, pos, lab), img, lab, unc, key_label))

\* ------------------------------------------------ AddGuidance: per label
\* get_guidance_tensor_for_key_label: data.get(key_label, empty tensor)
Held(d, key) == IF key \in d.gkeys THEN d.guidance[key] ELSE <<>>

Kept(pts) == [pts |-> pts, err |-> FALSE, syst |-> FALSE, noise |-> FALSE]
Failed(pts) == [pts |-> pts, err |-> TRUE, syst |-> FALSE, noise |-> FALSE]

\* torch.cat((guidance, torch.tensor([tmp_gui])), 0)
CatPrepend(g, p) == <<p>> \o g
CatTwice(g, p) == g \o <<p, p>>
Cat(g, p) == Append(g, p)

\* check_guidance_length (3-D): len(new_guidance) == 4; len(None) raises
GuidanceLengthOk(p) == p # None /\ Len(p) = 4

add_guidance_or_fail(c, d, key) ==
  LET pos == d.discrepancy[key][1]
      g == Held(d, key)
  IN IF Sum(pos) > 0
     THEN {IF o.err \/ ~GuidanceLengthOk(o.idx) THEN Failed(g)
           ELSE [pts |-> Cat(g, o.idx), err |-> FALSE, syst |-> o.syst, noise |-> o.noise]
           : o \in find_guidance(c, pos, d.image, d.label, d.uncertainty, key)}
     ELSE {Failed(g)}

\* add_guidance_based_on_discrepancy with coordinates None, lines 544-558
add_guidance_based_on_discrepancy(c, d, key) ==
  LET pos == d.discrepancy[key][1]
      g == Held(d, key)
  IN IF Sum(pos) > 0
     THEN {IF o.err \/ ~GuidanceLengthOk(o.idx) THEN Failed(g)
           ELSE [pts |-> Cat(g, o.idx), err |-> FALSE, syst |-> o.syst, noise |-> o.noise]
           : o \in find_guidance(c, pos, d.image, d.label, d.uncertainty, key)}
     ELSE {Kept(g)}

\* add_guidance_based_on_label, lines 576-597
add_guidance_based_on_label(c, d, key, mask) ==
  LET g == Held(d, key)
  IN IF Sum(mask) > 0
     THEN {IF p = None THEN Kept(g)
           ELSE IF ~GuidanceLengthOk(p) THEN Failed(g)
           ELSE Kept(Cat(g, p))
           : p \in get_random_choice_from_tensor(mask)}
     ELSE {Kept(g)}

\* PatchIterd(patch_size): the patch origins, for a patch size that divides the shape
PatchOrigins(c) ==
  {v \in Voxels : \A i \in 1..3 : v[i] % c.patch_size[i] = 0}
PatchVoxels(c, o) ==
  {v \in Voxels : \A i \in 1..3 : v[i] >= o[i] /\ v[i] < o[i] + c.patch_size[i]}
LocalVoxels(c) ==
  {<<x, y, z>> : x \in 0..(c.patch_size[1] - 1), y \in 0..(c.patch_size[2] - 1),
                 z \in 0..(c.patch_size[3] - 1)}
Shift(v, o) == <<v[1] + o[1], v[2] + o[2], v[3] + o[3]>>

\* DiceLoss(include_background=True, reduction="none") of a patch, for the
\* one-hot channel ch: 1 - (2 I + eps) / (G + P + eps), as <<2 I, G + P>>
DiceStats(c, d, o, ch) ==
  LET P == PatchVoxels(c, o)
  IN <<2 * Cardinality({v \in P : d.label[v] = ch /\ d.pred[v] = ch}),
       Cardinality({v \in P : d.label[v] = ch}) + Cardinality({v \in P : d.pred[v] = ch})>>
\* loss(a) > loss(b), to first order in eps
LossGreater(a, b) ==
  \/ a[1] * b[2] < b[1] * a[2]
  \/ (a[1] * b[2] = b[1] * a[2] /\ a[1] + b[2] < b[1] + a[2])
\* torch.argmax(loss_per_label, dim=0)[ch]: the first patch of the largest loss
WorstPatch(c, d, ch) ==
  CHOOSE o \in PatchOrigins(c) :
    \A o2 \in PatchOrigins(c) :
      /\ ~LossGreater(DiceStats(c, d, o2, ch), DiceStats(c, d, o, ch))
      /\ (~LossGreater(DiceStats(c, d, o, ch), DiceStats(c, d, o2, ch))
            => FlatIndex(o) <= FlatIndex(o2))

\* utils.helper.get_tensor_at_coordinates: the mask cropped to the patch
get_tensor_at_coordinates(c, pos, o) == [l \in LocalVoxels(c) |-> pos[Shift(l, o)]]
\* utils.helper.get_global_coordinates_from_patch_coordinates: add the patch origin
get_global_coordinates_from_patch_coordinates(p, o) ==
  <<p[1], p[2] + o[1], p[3] + o[2], p[4] + o[3]>>

\* add_guidance_based_on_discrepancy with patch coordinates, lines 559-573
add_guidance_in_patch(c, d, key, o) ==
  LET pos == get_tensor_at_coordinates(c, d.discrepancy[key][1], o)
      g == Held(d, key)
  IN IF Sum(pos) > 0
     THEN {IF q.err THEN Failed(g)
           ELSE IF q.idx = None THEN Kept(g)
           ELSE IF ~GuidanceLengthOk(q.idx) THEN Failed(g)
           ELSE [pts |-> Cat(g, get_global_coordinates_from_patch_coordinates(q.idx, o)),
                 err |-> FALSE, syst |-> q.syst, noise |-> q.noise]
           : q \in find_guidance(c, pos, d.image, d.label, d.uncertainty, key)}
     ELSE {Kept(g)}

\* AddGuidance.__call__, lines 612-624: replay of the stored click record
Prepend0(els) == [i \in 1..Len(els) |-> <<0>> \o els[i]]
PrefixLast(els, k) == SubSeq(els, Len(els) - Min(k, Len(els)) + 1, Len(els))
Prefix(els, k) == SubSeq(els, 1, Min(k, Len(els)))
ReplayFromRecord(c, d, key) ==
  LET num_clicks == IF key \in d.gkeys THEN Len(d.guidance[key]) + 1 ELSE 1
  IN IF key \notin DOMAIN d.record THEN {Failed(Held(d, key))}
     ELSE {Kept(Prefix(Prepend0(d.record[key]), num_clicks))}

\* label.eq(idx)
LabelEq(lab, idx) == [v \in DOMAIN lab |-> IF lab[v] = idx THEN 1 ELSE 0]

\* one pass of a loop over data[LABELS_KEY] in AddGuidance.__call__
KeyStep(c, mode, d, i) ==
  LET key == c.label_names[i].key
  IN CASE mode = "replay" -> ReplayFromRecord(c, d, key)
       [] mode = "label" -> add_guidance_based_on_label(c, d, key, LabelEq(d.label, i - 1))
       [] mode = "discrepancy" -> add_guidance_based_on_discrepancy(c, d, key)
       [] mode = "patch" -> add_guidance_in_patch(c, d, key, WorstPatch(c, d, i - 1))

\* the loop over data[LABELS_KEY]: data[key_label] is assigned label by label,
\* and an exception leaves the labels before it assigned
RECURSIVE OverLabels(_, _, _, _, _)
OverLabels(c, mode, d, i, acc) ==
  IF i > Len(c.label_names) THEN {acc}
  ELSE LET key == c.label_names[i].key
       IN UNION {
            IF o.err THEN {[acc EXCEPT !.err = TRUE]}
            ELSE OverLabels(c, mode, d, i + 1,
                   [guidance |-> [acc.guidance EXCEPT ![key] = o.pts],
                    gkeys |-> acc.gkeys \cup {key},
                    err |-> FALSE,
                    fired |-> acc.fired
                               \cup (IF o.syst THEN {<<key, "systematic">>} ELSE {})
                               \cup (IF o.noise THEN {<<key, "noise">>} ELSE {})])
            : o \in KeyStep(c, mode, d, i)}

Untouched(d) == [guidance |-> d.guidance, gkeys |-> d.gkeys, err |-> FALSE, fired |-> {}]

AddGuidanceCallLenient(c, d) ==
  LET s == c.click_generation_strategy
  IN IF c.replay THEN OverLabels(c, "replay", d, 1, Untouched(d))
     ELSE IF s = "GLOBAL_NON_CORRECTIVE" THEN OverLabels(c, "label", d, 1, Untouched(d))
     ELSE IF s \in {"GLOBAL_CORRECTIVE", "DEEPGROW_GLOBAL_CORRECTIVE"}
     THEN UNION {
            IF will_interact THEN OverLabels(c, "discrepancy", d, 1, Untouched(d))
            ELSE {Untouched(d)}
            : will_interact \in IF s = "DEEPGROW_GLOBAL_CORRECTIVE"
                                THEN Bernoulli(c.deepgrow_probability) ELSE {TRUE}}
     ELSE IF s = "PATCH_BASED_CORRECTIVE" THEN OverLabels(c, "patch", d, 1, Untouched(d))
     ELSE {Untouched(d)}

\* AddGuidance.__call__: every outcome of one call
AddGuidanceCall(c, d) ==
  LET s == c.click_generation_strategy
  IN IF c.replay THEN OverLabels(c, "replay", d, 1, Untouched(d))
     ELSE IF s = "GLOBAL_NON_CORRECTIVE" THEN OverLabels(c, "label", d, 1, Untouched(d))
     ELSE IF s \in {"GLOBAL_CORRECTIVE", "DEEPGROW_GLOBAL_CORRECTIVE"}
     THEN UNION {
            IF will_interact THEN OverLabels(c, "discrepancy", d, 1, Untouched(d))
            ELSE {Untouched(d)}
            : will_interact \in IF s = "DEEPGROW_GLOBAL_CORRECTIVE"
                                THEN Bernoulli(c.deepgrow_probability) ELSE {TRUE}}
     ELSE IF s = "PATCH_BASED_CORRECTIVE" THEN OverLabels(c, "patch", d, 1, Untouched(d))
     ELSE {[Untouched(d) EXCEPT !.err = TRUE]}

\* ------------------------------------------------- AddGuidanceSignal
\* monai GaussianFilter(3, sigma=1): the 1-D kernel in hundredths, by |offset|
Kernel(k) == IF k = 0 THEN 38 ELSE IF k = 1 THEN 24 ELSE IF k = 2 THEN 6 ELSE IF k = 3 THEN 1 ELSE 0
Gaussian(seed) ==
  [v \in Voxels |->
     Sum([u \in Voxels |->
            seed[u] * Kernel(Abs(u[1] - v[1])) * Kernel(Abs(u[2] - v[2])) * Kernel(Abs(u[3] - v[3]))])]

Clamp(x, n) == Max(0, Min(x, n - 1))
SeedVoxelsAll(g) ==
  {<<Clamp(g[i][Len(g[i]) - 2], Shape[1]), Clamp(g[i][Len(g[i]) - 1], Shape[2]),
     Clamp(g[i][Len(g[i])], Shape[3])>> : i \in 1..Len(g)}
\* lines 217-229: the seed mask; a point with a negative component is skipped
SeedVoxels(g) ==
  {<<Clamp(g[i][Len(g[i]) - 2], Shape[1]), Clamp(g[i][Len(g[i]) - 1], Shape[2]),
     Clamp(g[i][Len(g[i])], Shape[3])>> :
     i \in {j \in 1..Len(g) : \A k \in 1..Len(g[j]) : g[j][k] >= 0}}
SeedMaskOf(S) == [v \in Voxels |-> IF v \in S THEN 1 ELSE 0]
SeedMask(g) == SeedMaskOf(SeedVoxels(g))

\* FastGeodis.generalised_geodesic3d: a distance field seeded at the mask,
\* unbounded above (here the city-block distance to the mask, in units of One)
Geodesic(img, mask) ==
  [v \in Voxels |->
     IF Support(mask) = {} THEN One * (Shape[1] + Shape[2] + Shape[3])
     ELSE LET ds == {Abs(u[1] - v[1]) + Abs(u[2] - v[2]) + Abs(u[3] - v[3]) : u \in Support(mask)}
          IN One * (CHOOSE m \in ds : \A e \in ds : m <= e)]

\* lines 231-255: smoothing, normalisation to [0, 1], disks, geodesic
Rendered(c, img, seed) ==
  IF MaxOf(seed) > 0
  THEN LET smooth == IF c.sigma # 0 THEN Gaussian(seed) ELSE seed
           mn == MinOf(smooth)
           mx == MaxOf(smooth)
           normal == [v \in Voxels |->
                        IF mx = mn THEN NaN ELSE ((smooth[v] - mn) * One) \div (mx - mn)]
           disk == [v \in Voxels |->
                      IF mx # mn /\ 10 * (smooth[v] - mn) > mx - mn THEN One ELSE 0]
           signal == IF c.disks THEN disk ELSE normal
       IN IF c.gdt THEN Geodesic(img, signal) ELSE signal
  ELSE seed

NeverBad(signal) == FALSE
\* line 257: not (min >= 0 and max <= 1.0); a NaN fails every comparison
BadSignal(signal) == \E v \in DOMAIN signal : signal[v] = NaN \/ signal[v] < 0 \/ signal[v] > One

\* _get_corrective_signal: <<signal, the exception raised or "">>
get_corrective_signal(c, img, g) ==
  IF Len(g) > 0
  THEN IF Len(g[1]) \notin {3, 4} THEN <<Zeros, "AssertionError">>
       ELSE LET signal == Rendered(c, img, SeedMask(g))
            IN <<signal, IF BadSignal(signal) /\ ~c.gdt THEN "UserWarning" ELSE "">>
  ELSE <<Zeros, "">>

\* AddGuidanceSignal.__call__: the channels after the labels 1..i, and the
\* exception the call raised or ""; data["image"] is assigned after every label
RECURSIVE SignalChannels(_, _, _, _)
SignalChannels(c, d, i, acc) ==
  IF i > Len(c.label_names) THEN [image |-> acc, err |-> ""]
  ELSE LET g == Held(d, c.label_names[i].key)
           r == get_corrective_signal(c, d.image, g)
           \* line 300: assert torch.sum(signal) > 0
           e == IF r[2] # "" THEN r[2]
                ELSE IF Len(g) > 0 /\ ~c.gdt /\ Sum(r[1]) <= 0 THEN "AssertionError" ELSE ""
       IN IF e # ""
          THEN [image |-> IF i = 1 THEN d.image ELSE acc, err |-> e]
          ELSE SignalChannels(c, d, i + 1, Append(acc, r[1]))

GrowingImage(c, d) == SignalChannels(c, d, 1, d.image)
\* tmp_image = image[0 : 0 + number_intensity_ch, ...], then one torch.cat per label
AddGuidanceSignalCall(c, d) == SignalChannels(c, d, 1, SubSeq(d.image, 1, NumberIntensityCh))

\* ---------------------------------------------- AddEmptySignalChannels
\* torch.zeros of 1 + len(data[LABELS_KEY]) channels, channel 0 the image
AddEmptySignalChannelsCall(c, img) ==
  <<img[1]>> \o [i \in 1..Len(c.label_names) |-> Zeros]

\* ------------------------------------------------------ Interaction
MaxIterCriteria ==
  {"MAX_ITER", "MAX_ITER_AND_PROBABILITY", "MAX_ITER_AND_DICE",
   "MAX_ITER_PROBABILITY_AND_DICE", "DEEPGROW_PROBABILITY"}

StopOnFirstExceed(c, it) == it > c.max_interactions
\* line 191: if iteration > self.max_interactions - 1
MaxIterReached(c, it) == it > c.max_interactions - 1

AtMostHardCap(it) == it <= HardCap
\* line 154: assert iteration < 1000
BelowHardCap(it) == it < HardCap

\* line 167: assert torch.sum(inputs[:, 1:, ...]) == 0, in round 0
SignalEmpty(it, img) == ~(it = 0 /\ (\E i \in 2..Len(img) : Sum(img[i]) # 0))

ProbabilityCheckAlsoDice(c) ==
  c.stopping_criterion \in {"MAX_ITER_AND_PROBABILITY", "MAX_ITER_PROBABILITY_AND_DICE"}
\* line 200: if self.stopping_criterion in [StoppingCriterion.MAX_ITER_AND_PROBABILITY]
ProbabilityCheck(c) == c.stopping_criterion = "MAX_ITER_AND_PROBABILITY"

DeepgrowGateEveryRound(c, it) == c.stopping_criterion = "DEEPGROW_PROBABILITY"
\* line 221: if iteration == 0 and self.stopping_criterion == DEEPGROW_PROBABILITY
DeepgrowGate(c, it) == it = 0 /\ c.stopping_criterion = "DEEPGROW_PROBABILITY"

\* lines 154-227: what the checks at the head of a round decide; dp, dd and dg
\* are the draws of lines 202, 217 and 223
Decision(c, it, img, loss, dp, dd, dg) ==
  IF ~BelowHardCap(it) THEN "HARD_CAP"
  ELSE IF ~SignalEmpty(it, img) THEN "SIGNAL_NOT_EMPTY"
  ELSE IF c.non_interactive THEN "NON_INTERACTIVE"
  ELSE IF c.stopping_criterion \in MaxIterCriteria /\ MaxIterReached(c, it) THEN "MAX_ITER"
  ELSE IF ProbabilityCheck(c) /\ ~dp THEN "PROBABILITY"
  ELSE IF c.stopping_criterion = "MAX_ITER_AND_DICE" /\ loss < c.loss_stopping_threshold
  THEN "DICE"
  ELSE IF c.stopping_criterion = "MAX_ITER_PROBABILITY_AND_DICE" /\ dd THEN "DICE_PROBABILITY"
  ELSE IF DeepgrowGate(c, it) /\ ~dg THEN "DEEPGROW"
  ELSE "CONTINUE"

\* lines 200-227: the random draws the checks of a round make, in order, as
\* <<round, parameter>>; none when the round ends at an earlier check
Draws(c, it, img, loss) ==
  IF Decision(c, it, img, loss, TRUE, FALSE, TRUE) # "CONTINUE" THEN <<>>
  ELSE (IF ProbabilityCheck(c) THEN <<<<it, "iteration_probability">>>> ELSE <<>>)
       \o (IF c.stopping_criterion = "MAX_ITER_PROBABILITY_AND_DICE"
           THEN <<<<it, "last_dice_loss">>>> ELSE <<>>)
       \o (IF DeepgrowGate(c, it) THEN <<<<it, "deepgrow_probability">>>> ELSE <<>>)

NeverGdt(dir) == FALSE
\* 'gdt' not in self.output_dir
HasGdt(dir) == dir = "out_gdt"
\* line 198: the click record written at the MAX_ITER stop
ClickRecord(g) ==
  [tumor |-> [i \in 1..Len(g) |-> Tail(g[i])], background |-> <<>>]

\* lines 193-198: the log after the flush at the MAX_ITER stop
Flushed(c, l, scores, g, keys) ==
  IF c.output_dir = "None" THEN [l EXCEPT !.error = "TypeError"]
  ELSE IF ~HasGdt(c.output_dir) /\ ~c.load_from_json
  THEN IF "tumor" \notin keys
       THEN [l EXCEPT !.saved_scores = Append(@, scores), !.error = "KeyError"]
       ELSE [l EXCEPT !.saved_scores = Append(@, scores),
                      !.saved_clicks = Append(@, ClickRecord(g["tumor"]))]
  ELSE l

Data == [label |-> label, image |-> image, pred |-> pred, discrepancy |-> discrepancy,
         guidance |-> guidance, gkeys |-> gkeys, record |-> record,
         uncertainty |-> uncertainty]

\* the pre-transform AddEmptySignalChannels, applied before the call
AddEmptySignalChannels ==
  /\ pc = "pre"
  /\ image' = AddEmptySignalChannelsCall(cfg, image)
  /\ pc' = "precheck"
  /\ UNCHANGED <<cfg, intensity, label, pred, discrepancy, guidance, gkeys, record, uncertainty,
                 iteration, last_dice_loss, dice_scores, log>>

\* lines 152-227: the head of a round
PreCheck ==
  /\ pc = "precheck"
  /\ \E dp \in Bernoulli(cfg.iteration_probability),
        dd \in Bernoulli(100 - last_dice_loss),
        dg \in Bernoulli(cfg.deepgrow_probability) :
       LET dec == Decision(cfg, iteration, image, last_dice_loss, dp, dd, dg)
           checked == [log EXCEPT !.prechecks = @ + 1,
                                  !.draws = @ \o Draws(cfg, iteration, image, last_dice_loss)]
       IN IF dec \in {"HARD_CAP", "SIGNAL_NOT_EMPTY"}
          THEN /\ log' = [checked EXCEPT !.error = "AssertionError"]
               /\ pc' = "raised"
          ELSE IF dec = "CONTINUE"
          THEN /\ log' = checked
               /\ pc' = "forward"
          ELSE IF dec = "MAX_ITER"
          THEN /\ log' = Flushed(cfg, [checked EXCEPT !.stop = dec], dice_scores, guidance, gkeys)
               /\ pc' = IF log'.error # "" THEN "raised" ELSE "train"
          ELSE /\ log' = [checked EXCEPT !.stop = dec]
               /\ pc' = "train"
  /\ UNCHANGED <<cfg, intensity, label, image, pred, discrepancy, guidance, gkeys, record, uncertainty,
                 iteration, last_dice_loss, dice_scores>>

\* lines 229-244: round-start event, forward pass, loss and metric
ForwardPass ==
  /\ pc = "forward"
  /\ \E p \in [Voxels -> {cfg.label_names[i].val : i \in 1..Len(cfg.label_names)}],
        loss \in cfg.losses, metric \in cfg.metrics :
       /\ pred' = p
       /\ last_dice_loss' = loss
       /\ dice_scores' = Append(dice_scores, metric)
  /\ log' = [log EXCEPT !.events = Append(@, "started"), !.forward_passes = @ + 1]
  /\ pc' = "finddisc"
  /\ UNCHANGED <<cfg, intensity, label, image, discrepancy, guidance, gkeys, record, uncertainty,
                 iteration>>

\* FindDiscrepancyRegions.__call__ on the batch data
ApplyFindDiscrepancy ==
  /\ discrepancy' = FindDiscrepancyRegions(label, pred, cfg.label_names)
  /\ label' = AfterClone(label, cfg.label_names)
  /\ pred' = AfterClone(pred, cfg.label_names)

\* line 273, first click transform
FindDiscrepancy ==
  /\ pc = "finddisc"
  /\ ApplyFindDiscrepancy
  /\ pc' = "addguidance"
  /\ UNCHANGED <<cfg, intensity, image, guidance, gkeys, record, uncertainty,
                 iteration, last_dice_loss, dice_scores, log>>

\* line 273, second click transform: AddGuidance.__call__
AddGuidance ==
  /\ pc = "addguidance"
  /\ \E o \in AddGuidanceCall(cfg, Data) :
       /\ guidance' = o.guidance
       /\ gkeys' = o.gkeys
       /\ log' = [log EXCEPT !.fired = o.fired,
                             !.appended = {k \in DOMAIN guidance : o.guidance[k] # guidance[k]},
                             !.error = IF o.err THEN "AddGuidance" ELSE @]
       /\ pc' = IF o.err THEN "raised" ELSE "addsignal"
  /\ UNCHANGED <<cfg, intensity, label, image, pred, discrepancy, record, uncertainty,
                 iteration, last_dice_loss, dice_scores>>

\* line 273, third click transform: AddGuidanceSignal.__call__
AddGuidanceSignal ==
  /\ pc = "addsignal"
  /\ LET o == AddGuidanceSignalCall(cfg, Data)
     IN /\ image' = o.image
        /\ log' = [log EXCEPT !.error = o.err]
        /\ pc' = IF o.err # "" THEN "raised" ELSE "completed"
  /\ UNCHANGED <<cfg, intensity, label, pred, discrepancy, guidance, gkeys, record, uncertainty,
                 iteration, last_dice_loss, dice_scores>>

IterationCompletedNoIncrement ==
  /\ pc = "completed"
  /\ log' = [log EXCEPT !.events = Append(@, "completed")]
  /\ pc' = "precheck"
  /\ UNCHANGED <<cfg, intensity, label, image, pred, discrepancy, guidance, gkeys, record, uncertainty,
                 iteration, last_dice_loss, dice_scores>>

IterationCompletedSilent ==
  /\ pc = "completed"
  /\ iteration' = iteration + 1
  /\ pc' = "precheck"
  /\ UNCHANGED <<cfg, intensity, label, image, pred, discrepancy, guidance, gkeys, record, uncertainty,
                 last_dice_loss, dice_scores, log>>

\* lines 278-280: round-complete event, iteration += 1
IterationCompleted ==
  /\ pc = "completed"
  /\ log' = [log EXCEPT !.events = Append(@, "completed")]
  /\ iteration' = iteration + 1
  /\ pc' = "precheck"
  /\ UNCHANGED <<cfg, intensity, label, image, pred, discrepancy, guidance, gkeys, record, uncertainty,
                 last_dice_loss, dice_scores>>

\* lines 282-284: engine._iteration(engine, batchdata)
TrainStep ==
  /\ pc = "train"
  /\ log' = [log EXCEPT !.train_calls = @ + 1]
  /\ pc' = "returned"
  /\ UNCHANGED <<cfg, intensity, label, image, pred, discrepancy, guidance, gkeys, record, uncertainty,
                 iteration, last_dice_loss, dice_scores>>

InitialDiceLossZero == 0 * 100
\* line 150: last_dice_loss = 1, in hundredths
InitialDiceLoss == 1 * 100

EmptyLog ==
  [prechecks |-> 0, forward_passes |-> 0, train_calls |-> 0, events |-> <<>>,
   stop |-> "", error |-> "", saved_scores |-> <<>>, saved_clicks |-> <<>>,
   fired |-> {}, appended |-> {}, applied |-> 0, draws |-> <<>>]

\* the state at the start of a call, before the pre-transforms
InitWith(scenarios) ==
  \E s \in scenarios :
    /\ cfg = s.cfg
    /\ intensity = s.intensity
    /\ label = s.label
    /\ image = <<s.intensity>>
    /\ pred = [v \in Voxels |-> 0]
    /\ discrepancy = [k \in KeysOf(s.cfg.label_names) |-> <<Zeros, Zeros>>]
    /\ guidance = [k \in KeysOf(s.cfg.label_names) |-> <<>>]
    /\ gkeys = {}
    /\ record = s.record
    /\ uncertainty = s.uncertainty
    /\ iteration = 0
    /\ last_dice_loss = InitialDiceLoss
    /\ dice_scores = <<>>
    /\ pc = "pre"
    /\ log = EmptyLog

NextCall ==
  \/ AddEmptySignalChannels
  \/ PreCheck
  \/ ForwardPass
  \/ FindDiscrepancy
  \/ AddGuidance
  \/ AddGuidanceSignal
  \/ IterationCompleted
  \/ TrainStep

\* ------------------------------------------------ the checked episodes
Scenario(c, l, i, r, u) ==
  [cfg |-> c, label |-> l, intensity |-> i, record |-> r, uncertainty |-> u]
Ramp == [v \in Voxels |-> v[3] + 1]
NoRecord == [tumor |-> <<>>, background |-> <<>>]
Middle == [v \in Voxels |-> IF v[3] = 1 THEN 1 ELSE 0]
Ends == [v \in Voxels |-> IF v[3] = 1 THEN 0 ELSE 1]
Upper == [v \in Voxels |-> IF v[3] >= 1 THEN 1 ELSE 0]
\* no tumor, one voxel, two components, one component of two voxels
LabelMaps == {Zeros, Middle, Ends, Upper}
SeqsUpTo(S, n) == UNION {[1..k -> S] : k \in 0..n}
Records ==
  {[tumor |-> t, background |-> b] :
     t \in SeqsUpTo({<<0, 0, 0>>, <<0, 0, 2>>}, MaxRecord), b \in SeqsUpTo({<<0, 0, 0>>}, 1)}

Budgets(C) == {[c EXCEPT !.max_interactions = m] : c \in C, m \in 0..MaxInteractions}
Corrective == [DefaultConfig EXCEPT !.output_dir = "out"]
Deepgrow ==
  [Corrective EXCEPT !.click_generation_strategy = "DEEPGROW_GLOBAL_CORRECTIVE",
                     !.deepgrow_probability = 50]
PatchBased == [Corrective EXCEPT !.click_generation_strategy = "PATCH_BASED_CORRECTIVE"]
SamplingConfigs ==
  Budgets({Corrective,
           [Corrective EXCEPT !.center_click = TRUE],
           [Corrective EXCEPT !.random_click = TRUE],
           Deepgrow,
           [Corrective EXCEPT !.click_generation_strategy = "GLOBAL_NON_CORRECTIVE"],
           PatchBased,
           [PatchBased EXCEPT !.random_click = TRUE],
           [Corrective EXCEPT !.click_generation_strategy = "UNKNOWN"]})
\* click noise, with the default max_interactions
NoiseConfigs ==
  {[Corrective EXCEPT !.click_noise = TRUE], [PatchBased EXCEPT !.click_noise = TRUE]}
SystematicConfigs ==
  Budgets({[Corrective EXCEPT !.systematic_error = TRUE, !.intensity_based = TRUE],
           [Corrective EXCEPT !.systematic_error = TRUE, !.uncertainty_based = TRUE]})
ReplayConfigs ==
  Budgets({[Corrective EXCEPT !.replay = TRUE, !.load_from_json = TRUE],
           [Corrective EXCEPT !.replay = TRUE, !.load_from_json = TRUE,
                              !.click_generation_strategy = "UNKNOWN"]})

\* the click transforms under the plain max-iteration criterion
ClickScenarios ==
  {Scenario(c, l, Ramp, NoRecord, Zeros) : c \in SamplingConfigs, l \in LabelMaps}
  \cup {Scenario(c, Middle, Ramp, NoRecord, Zeros) : c \in NoiseConfigs}
  \cup {Scenario(c, Middle, Ramp, NoRecord, [v \in Voxels |-> 1]) : c \in SystematicConfigs}
  \cup {Scenario(c, Zeros, Ramp, r, Zeros) : c \in ReplayConfigs, r \in Records}

Init == InitWith(ClickScenarios)
Next == NextCall
Spec == Init /\ [][Next]_vars

\* the stopping policy: every criterion, with and without the flush
LoopConfigs ==
  Budgets({[g EXCEPT !.stopping_criterion = s, !.output_dir = o,
                     !.losses = IF s \in {"MAX_ITER_AND_DICE", "MAX_ITER_PROBABILITY_AND_DICE"}
                                THEN {0, 50, 100} ELSE {100}] :
             g \in {Corrective, Deepgrow}, s \in MaxIterCriteria,
             o \in {"None", "out", "out_gdt"}}
          \cup {[Corrective EXCEPT !.non_interactive = TRUE],
                [Corrective EXCEPT !.load_from_json = TRUE],
                [Corrective EXCEPT !.stopping_criterion = "MAX_ITER_AND_DICE",
                                   !.loss_stopping_threshold = 100,
                                   !.losses = {0, 50, 100}]})
LoopScenarios == {Scenario(c, Middle, Ramp, NoRecord, Zeros) : c \in LoopConfigs}

InitLoop == InitWith(LoopScenarios)
SpecLoop == InitLoop /\ [][Next]_vars

\* calls long enough to meet the ceiling of line 154: a background label only
\* and an empty label map, so that a round adds no click; the budget just
\* below, at and above the ceiling
OnlyBackground == <<[key |-> "background", val |-> 0]>>
CapConfigs ==
  {[Corrective EXCEPT !.label_names = OnlyBackground, !.output_dir = "out_gdt",
                      !.max_interactions = m] : m \in {HardCap - 1, HardCap, HardCap + 1}}
CapScenarios == {Scenario(c, Zeros, Ramp, NoRecord, Zeros) : c \in CapConfigs}

InitCap == InitWith(CapScenarios \cup LoopScenarios)
SpecCap == InitCap /\ [][Next]_vars

\* AddGuidance on a volume deep enough to keep slices between the two bands:
\* one slice more than the bands on each side of the two kept slices
DeepVoxels == {<<0, 0, z>> : z \in 0..(DeBladder + DeBrain + 1)}
Marked(S) == [v \in DeepVoxels |-> IF v[3] \in S THEN 1 ELSE 0]
Uptake(S) == [v \in DeepVoxels |-> IF v[3] \in S THEN 2 ELSE 1]
DeepConfigs ==
  {[Corrective EXCEPT !.systematic_error = TRUE, !.intensity_based = TRUE],
   [Corrective EXCEPT !.systematic_error = TRUE, !.uncertainty_based = TRUE],
   [Corrective EXCEPT !.systematic_error = TRUE, !.intensity_based = TRUE,
                      !.uncertainty_based = TRUE],
   [Corrective EXCEPT !.systematic_error = TRUE, !.intensity_based = TRUE,
                      !.click_noise = TRUE]}
\* no foreground, or a foreground below, inside and above the kept slices
DeepLabels ==
  {Marked(S) : S \in {{}, {0}, {DeBladder}, {DeBladder + DeBrain + 1},
                      {DeBladder, DeBladder + DeBrain + 1}}}
InitSyst ==
  /\ cfg \in DeepConfigs
  /\ intensity \in {Uptake(S) : S \in {{}, {0, DeBladder}, {DeBladder + 1},
                                        {0, DeBladder, DeBladder + 1}}}
  /\ label \in DeepLabels
  /\ image = <<intensity>>
  /\ pred \in {Marked({}), Marked({DeBladder + 1})}
  /\ discrepancy = FindDiscrepancyRegions(label, pred, cfg.label_names)
  /\ guidance = [k \in KeysOf(cfg.label_names) |-> <<>>]
  /\ gkeys = {}
  /\ record = NoRecord
  /\ uncertainty \in {Marked(S) : S \in SUBSET {0, DeBladder, DeBladder + 1}}
  /\ iteration = 0
  /\ last_dice_loss = InitialDiceLoss
  /\ dice_scores = <<>>
  /\ pc = "addguidance"
  /\ log = EmptyLog

NextSyst == AddGuidance
SpecSyst == InitSyst /\ [][NextSyst]_vars

\* FindDiscrepancyRegions as a function of its inputs, applied again and again
LabelNames3 ==
  <<[key |-> "tumor", val |-> 1], [key |-> "organ", val |-> 2],
    [key |-> "background", val |-> 0]>>
InitDisc ==
  /\ cfg \in {[DefaultConfig EXCEPT !.label_names = n] : n \in {LabelNames, LabelNames3}}
  /\ intensity = Ramp
  /\ label \in [Voxels -> 0..2]
  /\ image = <<Ramp>>
  /\ pred \in [Voxels -> 0..2]
  /\ discrepancy = [k \in KeysOf(cfg.label_names) |-> <<Zeros, Zeros>>]
  /\ guidance = [k \in KeysOf(cfg.label_names) |-> <<>>]
  /\ gkeys = {}
  /\ record = NoRecord
  /\ uncertainty = Zeros
  /\ iteration = 0
  /\ last_dice_loss = 100
  /\ dice_scores = <<>>
  /\ pc = "disc"
  /\ log = EmptyLog

FindDiscrepancyAgain ==
  /\ pc = "disc"
  /\ ApplyFindDiscrepancy
  /\ log' = [log EXCEPT !.applied = Min(@ + 1, 2)]
  /\ UNCHANGED <<cfg, intensity, image, guidance, gkeys, record, uncertainty,
                 iteration, last_dice_loss, dice_scores, pc>>

NextDisc == FindDiscrepancyAgain
SpecDisc == InitDisc /\ [][NextDisc]_vars

\* AddGuidanceSignal as a function of its configuration and the points held:
\* points inside the volume, below it, beyond it, and with a negative component
SeedPoints ==
  {<<0, 0, 0, z>> : z \in (0 - 1)..Shape[3]} \cup {<<0, 0 - 1, 0, 1>>}
RenderConfigs ==
  {[Corrective EXCEPT !.sigma = sg, !.disks = dk, !.gdt = gd] :
     sg \in {0, 1}, dk \in BOOLEAN, gd \in BOOLEAN}
InitSignal ==
  /\ cfg \in RenderConfigs
  /\ intensity = Ramp
  /\ label = Middle
  /\ image = AddEmptySignalChannelsCall(cfg, <<Ramp>>)
  /\ pred = Zeros
  /\ discrepancy = [k \in KeysOf(cfg.label_names) |-> <<Zeros, Zeros>>]
  /\ \E t \in SeqsUpTo(SeedPoints, MaxSeeds), b \in SeqsUpTo({<<0, 0, 0, 0>>}, 1) :
       guidance = [tumor |-> t, background |-> b]
  /\ gkeys = KeysOf(cfg.label_names)
  /\ record = NoRecord
  /\ uncertainty = Zeros
  /\ iteration = 0
  /\ last_dice_loss = 100
  /\ dice_scores = <<>>
  /\ pc = "addsignal"
  /\ log = EmptyLog

NextSignal == AddGuidanceSignal
SpecSignal == InitSignal /\ [][NextSignal]_vars

\* ------------------------------------------------------- properties
Keys == KeysOf(cfg.label_names)
IsPrefix(a, b) == Len(a) <= Len(b) /\ SubSeq(b, 1, Len(a)) = a
InMask(mask, p) == Len(p) = 4 /\ Spatial(p) \in DOMAIN mask /\ mask[Spatial(p)] = 1
StoredPoints == UNION {{guidance[k][i] : i \in 1..Len(guidance[k])} : k \in Keys}
AppendedPoint(k) == guidance[k][Len(guidance[k])]
SamplesOnDiscrepancy ==
  /\ ~cfg.replay
  /\ cfg.click_generation_strategy \in
       {"GLOBAL_CORRECTIVE", "DEEPGROW_GLOBAL_CORRECTIVE", "PATCH_BASED_CORRECTIVE"}
\* the click rounds whose AddGuidance has run
RoundsClicked == iteration + (IF pc \in {"addsignal", "completed", "raised"} THEN 1 ELSE 0)

\* C1, as stated: with the plain max-iteration criterion and max_interactions = M,
\* a call that stops on the max-iteration check has performed exactly M + 1
\* forward passes.
C1_AsStated ==
  cfg.stopping_criterion = "MAX_ITER" /\ log.stop = "MAX_ITER"
    => log.forward_passes = cfg.max_interactions + 1

\* C1, amended: with the plain max-iteration criterion and max_interactions = M
\* below the hard cap, a call never performs more than M forward passes, the
\* only stop is the max-iteration check, and it is the check at the head of
\* round M (the (M+1)-th check) that stops the loop, after exactly M forward
\* passes in the rounds 0..M-1.
C1_ForwardPasses ==
  cfg.stopping_criterion = "MAX_ITER" /\ ~cfg.non_interactive /\ cfg.max_interactions < HardCap
    => /\ log.forward_passes <= cfg.max_interactions
       /\ log.forward_passes \in {iteration, iteration + 1}
       /\ log.stop # ""
            => /\ log.stop = "MAX_ITER"
               /\ iteration = cfg.max_interactions
               /\ log.forward_passes = cfg.max_interactions
               /\ log.prechecks = cfg.max_interactions + 1

\* C1, the case: max_interactions = 2, corrective strategy, deepgrow
\* probability 1.0; the call has stopped and returned after 2 forward passes.
C1_Witness ==
  /\ pc = "returned"
  /\ log.stop = "MAX_ITER"
  /\ cfg.max_interactions = 2
  /\ cfg.click_generation_strategy = "GLOBAL_CORRECTIVE"
  /\ cfg.deepgrow_probability = 100
  /\ log.forward_passes = 2

\* C2, as stated: in the strategies that sample on the discrepancy, the point
\* AddGuidance appends for a non-background label whose false-negative mask
\* is nonzero lies at a voxel where that mask is 1, whichever base strategy
\* and perturbation is configured.
C2_AsStated ==
  pc = "addsignal" /\ SamplesOnDiscrepancy
    => \A k \in log.appended \ {"background"} :
         Sum(discrepancy[k][1]) > 0 => InMask(discrepancy[k][1], AppendedPoint(k))

\* C2, amended: the appended point lies in the label's false-negative mask
\* when the base strategy is the distance-weighted sample or the center click
\* and neither click noise nor a systematic error fired for that label in
\* that round.
C2_InMask ==
  pc = "addsignal" /\ SamplesOnDiscrepancy /\ (cfg.center_click \/ ~cfg.random_click)
    => \A k \in log.appended \ {"background"} :
         /\ Sum(discrepancy[k][1]) > 0
         /\ <<k, "noise">> \notin log.fired
         /\ <<k, "systematic">> \notin log.fired
         => InMask(discrepancy[k][1], AppendedPoint(k))

\* C2, the case: click noise is configured but did not fire for the tumor in
\* this round, and the tumor's point has just been appended.
C2_Witness ==
  /\ pc = "addsignal"
  /\ cfg.click_noise
  /\ "tumor" \in log.appended
  /\ <<"tumor", "noise">> \notin log.fired
  /\ Sum(discrepancy["tumor"][1]) > 0
  /\ InMask(discrepancy["tumor"][1], AppendedPoint("tumor"))

C4_AppendOnly == [][\A k \in Keys : IsPrefix(guidance[k], guidance'[k])]_vars

\* C4, the case: a second, different point has been appended for the tumor.
C4_Witness ==
  /\ pc = "addsignal"
  /\ iteration = 1
  /\ Len(guidance["tumor"]) = 2
  /\ guidance["tumor"][1] # guidance["tumor"][2]

\* C5: in replay mode, after the K-th call of AddGuidance in a call (K is the
\* number of points held plus one) a label holds the first K points of the
\* record in stored order, each with a 0 prepended, and all N of them once K
\* exceeds N; label, prediction and discrepancy have no influence.
C5_Replay ==
  cfg.replay /\ pc # "raised"
    => \A k \in Keys :
         LET K == Min(RoundsClicked, Len(record[k]))
         IN guidance[k] =
              [i \in 1..K |-> <<0, record[k][i][1], record[k][i][2], record[k][i][3]>>]

\* C5, the case: second replay round; the tumor holds both of its 2 stored
\* points, the background its only one.
C5_Witness ==
  /\ cfg.replay
  /\ pc = "addsignal"
  /\ iteration = 1
  /\ Len(record["tumor"]) = 2
  /\ record["tumor"][1] # record["tumor"][2]
  /\ Len(guidance["tumor"]) = 2
  /\ Len(record["background"]) = 1
  /\ Len(guidance["background"]) = 1

\* C6, for an output directory that is set and max_interactions >= 1: the
\* training step is invoked at most once, never before the loop decided to
\* stop, and exactly once when a call that decided to stop has ended.
C6_TrainOnce ==
  cfg.output_dir = "out" /\ cfg.max_interactions >= 1
    => /\ log.train_calls <= 1
       /\ log.stop = "" => log.train_calls = 0
       /\ log.stop # "" /\ pc \in {"returned", "raised"} => log.train_calls = 1

\* C7: from AddEmptySignalChannels on, the Volume has 1 + L channels; channel 0
\* is the intensity it started with; after a rendering, channel i is the
\* signal of the i-th label in dictionary order: within [0, 1], zero when the
\* label holds no point and nonzero when it holds one.
C7_Channels ==
  pc \notin {"pre", "raised"}
    => /\ Len(image) = 1 + Len(cfg.label_names)
       /\ image[1] = intensity
       /\ pc # "addsignal"
            => \A i \in 1..Len(cfg.label_names) :
                 LET g == guidance[cfg.label_names[i].key]
                 IN /\ g = <<>> => image[i + 1] = Zeros
                    /\ \A v \in Voxels : image[i + 1][v] >= 0 /\ image[i + 1][v] <= One
                    /\ g # <<>> => Sum(image[i + 1]) > 0

\* C7, the case: the second rendering of a call; the tumor holds 2 points and
\* the Volume still has 3 channels.
C7_Witness ==
  /\ pc = "completed"
  /\ iteration = 1
  /\ Len(guidance["tumor"]) = 2
  /\ guidance["background"] = <<>>
  /\ Len(image) = 3
  /\ image[2] # Zeros

\* C8: each round appends at most one point per label: a label never holds
\* more points than rounds whose AddGuidance has run, a call that returned
\* holds at most max_interactions of them, and with max_interactions = 2 at
\* most 3.
C8_OnePerRound ==
  \A k \in Keys :
    /\ Len(guidance[k]) <= RoundsClicked
    /\ pc = "returned" => Len(guidance[k]) <= cfg.max_interactions
    /\ cfg.max_interactions = 2 => Len(guidance[k]) <= 3

\* C8, the case: a call with max_interactions = 2 has returned and the tumor
\* holds 2 points.
C8_Witness ==
  /\ pc = "returned"
  /\ cfg.max_interactions = 2
  /\ iteration = 2
  /\ Len(guidance["tumor"]) = 2

C10_Background ==
  pc = "disc" /\ log.applied >= 1
    => LET bl == [v \in Voxels |-> 1 - (IF label[v] # 0 THEN 1 ELSE 0)]
           bp == [v \in Voxels |-> 1 - (IF pred[v] # 0 THEN 1 ELSE 0)]
       IN \A v \in Voxels :
            /\ discrepancy["background"][1][v] = (IF bl[v] - bp[v] > 0 THEN 1 ELSE 0)
            /\ discrepancy["background"][2][v] = (IF bl[v] - bp[v] < 0 THEN 1 ELSE 0)
            /\ discrepancy["background"][1][v] = 1 <=> (label[v] = 0 /\ pred[v] # 0)
            /\ discrepancy["background"][2][v] = 1 <=> (label[v] # 0 /\ pred[v] = 0)

\* C10, the case: the background has a false negative and a false positive.
C10_Witness ==
  /\ pc = "disc"
  /\ log.applied >= 1
  /\ \E v \in Voxels : discrepancy["background"][1][v] = 1
  /\ \E v \in Voxels : discrepancy["background"][2][v] = 1
  /\ \E v \in Voxels : label[v] = 2

\* C11: the click record written at the end of a call maps every label name
\* to the points that label holds, in click order, without the leading
\* placeholder, so that replaying the written record in full gives back, for
\* every label including the background, the points the call ended with.
C11_RecordRoundTrip ==
  log.saved_clicks # <<>>
    => LET written == log.saved_clicks[Len(log.saved_clicks)]
       IN \A k \in Keys :
            /\ k \in DOMAIN written
            /\ written[k] =
                 [i \in 1..Len(guidance[k]) |->
                    <<guidance[k][i][2], guidance[k][i][3], guidance[k][i][4]>>]
            /\ [i \in 1..Len(written[k]) |-> <<0>> \o written[k][i]] = guidance[k]

\* C20: when the click noise fires, the offset of every spatial component is
\* drawn from the closed range -noise_level..noise_level, each integer of
\* the range being a possible draw, and the offset of the leading
\* placeholder is 0.
C20_ClosedRange ==
  pc = "addsignal" /\ cfg.click_noise /\ <<"tumor", "noise">> \in log.fired
    => /\ \A j \in 2..4 :
            {o[j] : o \in NoiseOffsets(cfg)} = (0 - cfg.noise_level)..cfg.noise_level
       /\ \A o \in NoiseOffsets(cfg) : o[1] = 0

HeldBy(i) == guidance[cfg.label_names[i].key]
NonNegative(p) == \A j \in 1..Len(p) : p[j] >= 0
\* the voxel a point with no negative component is clamped to
ClampedVoxel(p) ==
  <<Min(p[Len(p) - 2], Shape[1] - 1), Min(p[Len(p) - 1], Shape[2] - 1),
    Min(p[Len(p)], Shape[3] - 1)>>

\* C12: in the Gaussian and disk modes every value of a signal channel that
\* AddGuidanceSignal returns lies in [0, 1], in disk mode it is 0 or 1, and a
\* rendering with a value outside [0, 1] (a NaN included) ends in the
\* "bad signal" UserWarning instead of being returned.
C12_SignalRange ==
  ~cfg.gdt
    => /\ pc = "completed"
            => \A i \in 1..Len(cfg.label_names) : \A v \in Voxels :
                 /\ image[i + 1][v] >= 0
                 /\ image[i + 1][v] <= One
                 /\ cfg.disks => image[i + 1][v] \in {0, One}
       /\ pc \in {"completed", "raised"}
            /\ (\E v \in Voxels : Rendered(cfg, image, SeedMask(HeldBy(1)))[v] \notin 0..One)
            => pc = "raised" /\ log.error = "UserWarning"

\* C12, the case: two points rendered as disks; the channel holds a 1 and a 0.
C12_Witness ==
  /\ pc = "completed"
  /\ cfg.disks
  /\ ~cfg.gdt
  /\ Len(guidance["tumor"]) = 2
  /\ \E v \in Voxels : image[2][v] = One
  /\ \E v \in Voxels : image[2][v] = 0

InRound == pc \in {"forward", "finddisc", "addguidance", "addsignal", "completed"}

\* C13, as stated: under the five max-iteration criteria every stop taken
\* through the max-iteration check has flushed the metric history of the call.
C13_AsStated ==
  cfg.stopping_criterion \in MaxIterCriteria /\ log.stop = "MAX_ITER"
    => log.saved_scores = <<dice_scores>>

\* C13, amended: under the five max-iteration criteria a round whose check
\* finds iteration > max_interactions - 1 is not run; the stop taken there
\* flushes the metric history exactly when an output directory is set, its
\* name does not contain 'gdt' and load_from_json is off; with no output
\* directory the check fails with a TypeError; no other stop flushes.
C13_Flush ==
  cfg.stopping_criterion \in MaxIterCriteria /\ ~cfg.non_interactive
    => /\ InRound => iteration <= cfg.max_interactions - 1
       /\ log.stop = "MAX_ITER"
            => /\ iteration > cfg.max_interactions - 1
               /\ log.saved_scores =
                    (IF cfg.output_dir = "out" /\ ~cfg.load_from_json
                     THEN <<dice_scores>> ELSE <<>>)
               /\ cfg.output_dir = "None" => pc = "raised" /\ log.error = "TypeError"
       /\ log.stop # "MAX_ITER" => log.saved_scores = <<>>

\* C13, the case: a max-iteration+dice call stopped by the max-iteration
\* check after two rounds, its two metric values flushed.
C13_Witness ==
  /\ cfg.stopping_criterion = "MAX_ITER_AND_DICE"
  /\ cfg.output_dir = "out"
  /\ log.stop = "MAX_ITER"
  /\ Len(dice_scores) = 2
  /\ log.saved_scores = <<dice_scores>>

DrawsOf(kind) == {i \in 1..Len(log.draws) : log.draws[i][2] = kind}
Stopped == log.stop # ""

\* C16: under the deepgrow-probability criterion the entry gate is drawn at
\* round 0 only, after the max-iteration check of round 0 has passed, and at
\* most once; a failed draw stops the call with no forward pass, no event and
\* no click; with deepgrow_probability = 1 the gate never stops the call; no
\* other criterion draws the gate.
C16_DeepgrowGate ==
  /\ \A i \in DrawsOf("deepgrow_probability") :
       /\ cfg.stopping_criterion = "DEEPGROW_PROBABILITY"
       /\ log.draws[i][1] = 0
       /\ ~MaxIterReached(cfg, 0)
       /\ i = 1
  /\ cfg.stopping_criterion = "DEEPGROW_PROBABILITY" /\ ~cfg.non_interactive
       /\ cfg.max_interactions >= 1 /\ log.prechecks >= 1
       => Len(log.draws) = 1 /\ log.draws[1] = <<0, "deepgrow_probability">>
  /\ log.stop = "DEEPGROW"
       => /\ cfg.stopping_criterion = "DEEPGROW_PROBABILITY"
          /\ cfg.deepgrow_probability < 100
          /\ iteration = 0
          /\ log.prechecks = 1
          /\ log.forward_passes = 0
          /\ log.events = <<>>
          /\ dice_scores = <<>>
          /\ \A k \in DOMAIN guidance : guidance[k] = <<>>
          /\ gkeys = {}
          /\ pc \in {"train", "returned"}
  /\ cfg.deepgrow_probability = 100 => log.stop # "DEEPGROW"

\* C16, the case: the gate failed at round 0 of a deepgrow-probability call
\* with a budget of two rounds, and the call went on to the training step.
C16_Witness ==
  /\ cfg.stopping_criterion = "DEEPGROW_PROBABILITY"
  /\ cfg.max_interactions = 2
  /\ log.stop = "DEEPGROW"
  /\ log.draws = <<<<0, "deepgrow_probability">>>>
  /\ pc = "returned"

\* C16, the other case: the gate passed and the call ran its two rounds
\* without another gate draw.
C16_WitnessPassed ==
  /\ cfg.stopping_criterion = "DEEPGROW_PROBABILITY"
  /\ cfg.deepgrow_probability = 50
  /\ log.stop = "MAX_ITER"
  /\ log.forward_passes = 2
  /\ log.draws = <<<<0, "deepgrow_probability">>>>

\* C17: under the max-iteration+probability criterion every round whose
\* max-iteration check passes draws once with probability
\* iteration_probability, after that check; a failed draw stops the call
\* before the round's event and forward pass; no other criterion draws it.
C17_ProbabilityDraw ==
  /\ \A i \in DrawsOf("iteration_probability") :
       /\ cfg.stopping_criterion = "MAX_ITER_AND_PROBABILITY"
       /\ ~MaxIterReached(cfg, log.draws[i][1])
  /\ cfg.stopping_criterion = "MAX_ITER_AND_PROBABILITY" /\ ~cfg.non_interactive
       => /\ Len(log.draws) = Min(log.prechecks, cfg.max_interactions)
          /\ \A i \in 1..Len(log.draws) : log.draws[i] = <<i - 1, "iteration_probability">>
  /\ log.stop = "PROBABILITY"
       => /\ cfg.stopping_criterion = "MAX_ITER_AND_PROBABILITY"
          /\ cfg.iteration_probability < 100
          /\ ~MaxIterReached(cfg, iteration)
          /\ Len(log.draws) = iteration + 1
          /\ log.forward_passes = iteration
          /\ Len(log.events) = 2 * iteration
          /\ pc \in {"train", "returned"}

\* C17, the case: the first round passed its draw and ran, the second round's
\* draw failed before its forward pass.
C17_Witness ==
  /\ cfg.stopping_criterion = "MAX_ITER_AND_PROBABILITY"
  /\ log.stop = "PROBABILITY"
  /\ iteration = 1
  /\ log.forward_passes = 1
  /\ log.draws = <<<<0, "iteration_probability">>, <<1, "iteration_probability">>>>

Count(events, e) == Cardinality({i \in 1..Len(events) : events[i] = e})

\* C18: the round events alternate, starting with round-start; a round-start
\* follows the pre-check of its round and comes with the forward pass of the
\* round, a round-complete follows the click transforms of its round and
\* comes with the increment of the counter; at a stop the number of
\* round-starts, of round-completes and of forward passes are the same, and
\* zero in non-interactive mode.
C18_Events ==
  /\ \A i \in 1..Len(log.events) :
       log.events[i] = (IF i % 2 = 1 THEN "started" ELSE "completed")
  /\ Count(log.events, "started") = log.forward_passes
  /\ Count(log.events, "completed") = iteration
  /\ log.forward_passes <= log.prechecks
  /\ pc = "forward" => log.prechecks = iteration + 1 /\ Len(log.events) = 2 * iteration
  /\ pc \in {"finddisc", "addguidance", "addsignal", "completed"}
       => log.prechecks = iteration + 1 /\ Len(log.events) = 2 * iteration + 1
  /\ pc = "completed" => Len(image) = NumberIntensityCh + Len(cfg.label_names)
  /\ Stopped => /\ Count(log.events, "started") = Count(log.events, "completed")
                /\ Count(log.events, "completed") = log.forward_passes
                /\ cfg.non_interactive => log.forward_passes = 0 /\ log.events = <<>>

\* C18, the case: a call stopped after two full rounds.
C18_Witness ==
  /\ Stopped
  /\ log.events = <<"started", "completed", "started", "completed">>
  /\ log.forward_passes = 2
  /\ pc = "returned"

\* C18, the non-interactive case: stopped with no event and no forward pass.
C18_WitnessNonInteractive ==
  cfg.non_interactive /\ log.stop = "NON_INTERACTIVE" /\ log.events = <<>> /\ pc = "returned"

\* the assertion of line 154 has failed: raised at the head of a round later
\* than round 0
CapAbort ==
  /\ pc = "raised"
  /\ log.error = "AssertionError"
  /\ iteration > 0
  /\ Len(log.events) = 2 * iteration

\* C14, as stated: every round with index <= 1000 passes the hard cap.
C14_AsStated == iteration <= HardCap => ~CapAbort

\* C14, amended: the hard cap is checked first in every round and aborts
\* exactly when the round index has reached 1000: the rounds 0..999 pass it,
\* round 1000 does not start, and no stopping criterion is evaluated and no
\* draw is made for round 1000, whatever max_interactions is.
C14_HardCap ==
  /\ InRound => iteration < HardCap
  /\ iteration <= HardCap
  /\ CapAbort => iteration = HardCap
  /\ iteration = HardCap /\ pc # "precheck"
       => /\ CapAbort
          /\ log.stop = ""
          /\ log.prechecks = HardCap + 1
          /\ log.forward_passes = HardCap
          /\ log.train_calls = 0
          /\ \A i \in 1..Len(log.draws) : log.draws[i][1] < HardCap
  /\ log.stop = "MAX_ITER" => iteration < HardCap

\* C14, the case: a call with a budget of 1001 rounds has run the rounds
\* 0..999 and is aborted at the head of round 1000.
C14_Witness ==
  /\ cfg.max_interactions = HardCap + 1
  /\ CapAbort
  /\ iteration = HardCap
  /\ log.forward_passes = HardCap

Ended == pc \in {"returned", "raised"}

\* the position of a call in its loop, counted in steps
Position ==
  CASE pc = "pre" -> 0
    [] pc = "precheck" -> 1
    [] pc = "forward" -> 2
    [] pc = "finddisc" -> 3
    [] pc = "addguidance" -> 4
    [] pc = "addsignal" -> 5
    [] pc = "completed" -> 6
    [] pc = "train" -> 7
    [] OTHER -> 8
Progress == 7 * iteration + Position

C15_Bound ==
  cfg.stopping_criterion \in MaxIterCriteria
       => /\ cfg.max_interactions \in 0..(HardCap - 1)
               => /\ log.prechecks <= cfg.max_interactions + 1
                  /\ Progress <= 7 * cfg.max_interactions + 8
                  /\ ~CapAbort
                  /\ Ended => Stopped
                  /\ pc = "raised"
                       => log.stop = "MAX_ITER" /\ log.error \in {"TypeError", "KeyError"}
          /\ cfg.max_interactions >= HardCap
               => /\ log.prechecks <= HardCap + 1
                  /\ Ended => CapAbort /\ ~Stopped

BaseOnDiscrepancy ==
  /\ ~cfg.replay
  /\ cfg.click_generation_strategy \in {"GLOBAL_CORRECTIVE", "DEEPGROW_GLOBAL_CORRECTIVE"}
  /\ ~cfg.random_click

\* C21: for the background label no perturbation changes the point of the
\* base strategy: the point appended for the background is the base pick, a
\* voxel of the background's false-negative mask, whatever noise_probability
\* and systematic_error_probability are.
C21_BackgroundUnperturbed ==
  pc = "addsignal" /\ BaseOnDiscrepancy /\ "background" \in log.appended
    => InMask(discrepancy["background"][1], AppendedPoint("background"))

\* the class id of a label of the mapping
ClassId(k) == EntryOf(cfg.label_names, k).val

\* C23: in the non-corrective strategy the point appended for a label lies
\* at a voxel whose label value is the class id of that label, and a label
\* with no such voxel gets no point.
C23_OnOwnLabel ==
  pc = "addsignal" /\ ~cfg.replay /\ cfg.click_generation_strategy = "GLOBAL_NON_CORRECTIVE"
    => \A k \in Keys :
         /\ k \in log.appended => InMask(LabelEq(label, ClassId(k)), AppendedPoint(k))
         /\ Sum(LabelEq(label, ClassId(k))) = 0 => k \notin log.appended

\* a corrective strategy with no perturbation and no sampling on the label
PlainCorrective ==
  /\ SamplesOnDiscrepancy
  /\ ~cfg.systematic_error
  /\ ~cfg.click_noise
  /\ ~cfg.random_click

\* C24: in the corrective strategies a label whose false-negative mask sums
\* to zero keeps its points in that round and raises nothing; in the same
\* round the global corrective strategy still appends a point for every label
\* whose mask is not empty; and the loop goes on: without perturbations a
\* corrective call is never ended by its click transforms.
C24_Skip ==
  /\ pc \in {"addsignal", "completed"} /\ SamplesOnDiscrepancy
       => \A k \in Keys : Sum(discrepancy[k][1]) = 0 => k \notin log.appended
  /\ pc \in {"addsignal", "completed"} /\ ~cfg.replay
       /\ cfg.click_generation_strategy = "GLOBAL_CORRECTIVE"
       => \A k \in Keys : Sum(discrepancy[k][1]) > 0 => k \in log.appended
  /\ PlainCorrective /\ pc = "raised" => log.stop = "MAX_ITER"

\* C24, the case: in round 0 the tumor had nothing to correct and kept its
\* empty set, the background got its point, and the loop is at the head of
\* round 1.
C24_Witness ==
  /\ cfg.click_generation_strategy = "GLOBAL_CORRECTIVE"
  /\ PlainCorrective
  /\ pc = "precheck"
  /\ iteration = 1
  /\ Sum(discrepancy["tumor"][1]) = 0
  /\ Sum(discrepancy["background"][1]) > 0
  /\ guidance["tumor"] = <<>>
  /\ Len(guidance["background"]) = 1

UnknownStrategy ==
  cfg.click_generation_strategy \notin
    {"GLOBAL_NON_CORRECTIVE", "GLOBAL_CORRECTIVE", "DEEPGROW_GLOBAL_CORRECTIVE",
     "PATCH_BASED_CORRECTIVE"}
\* AddGuidance has been called in this call of the loop
GuidanceCalled == log.forward_passes >= 1 /\ pc \notin {"finddisc", "addguidance"}

\* C25, as stated: with an unknown strategy every call of AddGuidance raises
\* and leaves every set as it was, in replay mode too.
C25_AsStated ==
  UnknownStrategy /\ GuidanceCalled
    => /\ pc = "raised" /\ log.error = "AddGuidance"
       /\ \A k \in Keys : guidance[k] = <<>>

\* C25, amended: outside replay mode a call of AddGuidance with an unknown
\* strategy raises and leaves every set as it was, so the first round is the
\* last; in replay mode the strategy is not looked at: the call replays the
\* record and raises nothing.
C25_Unknown ==
  UnknownStrategy
    => /\ ~cfg.replay
            => /\ iteration = 0
               /\ pc \notin {"addsignal", "completed"}
               /\ \A k \in Keys : guidance[k] = <<>>
               /\ gkeys = {}
               /\ GuidanceCalled => pc = "raised" /\ log.error = "AddGuidance"
       /\ cfg.replay
            => /\ log.error # "AddGuidance"
               /\ pc \in {"addsignal", "completed"}
                    => \A k \in Keys :
                         guidance[k] = Prefix(Prepend0(record[k]), iteration + 1)

\* C25, the case: the first call of AddGuidance with an unknown strategy,
\* outside replay mode, has raised.
C25_Witness ==
  /\ UnknownStrategy
  /\ ~cfg.replay
  /\ pc = "raised"
  /\ log.error = "AddGuidance"
  /\ log.forward_passes = 1

\* C25, the replay case: an unknown strategy, and a point replayed.
C25_WitnessReplay ==
  /\ UnknownStrategy
  /\ cfg.replay
  /\ pc = "completed"
  /\ Len(guidance["tumor"]) = 1

DiceCriteria == {"MAX_ITER_AND_DICE", "MAX_ITER_PROBABILITY_AND_DICE"}

\* C26: the last loss starts at 1, so with a threshold of at most 1 neither
\* dice criterion stops a call at round 0: under the two dice criteria with
\* max_interactions >= 1 a call that stops has made a forward pass, and a
\* dice stop comes after a forward pass, on the loss that pass recorded.
C26_NoDiceStopAtRoundZero ==
  cfg.stopping_criterion \in DiceCriteria /\ cfg.loss_stopping_threshold <= 100
    => /\ log.stop \in {"DICE", "DICE_PROBABILITY"}
            => /\ iteration >= 1
               /\ log.forward_passes = iteration
               /\ Len(dice_scores) = iteration
               /\ last_dice_loss \in cfg.losses
               /\ log.stop = "DICE" => last_dice_loss < cfg.loss_stopping_threshold
               /\ log.stop = "DICE_PROBABILITY" => last_dice_loss < 100
       /\ cfg.max_interactions >= 1 /\ ~cfg.non_interactive /\ (Stopped \/ Ended)
            => log.forward_passes >= 1

\* C26, the case: a threshold of exactly 1, round 0 ran in spite of it, and
\* the loss 0.5 of its forward pass stopped the call at the head of round 1.
C26_Witness ==
  /\ cfg.stopping_criterion = "MAX_ITER_AND_DICE"
  /\ cfg.loss_stopping_threshold = 100
  /\ log.stop = "DICE"
  /\ iteration = 1
  /\ log.forward_passes = 1
  /\ last_dice_loss = 50

\* C26, the other criterion: stopped by the draw on the loss of round 0.
C26_WitnessProbability ==
  /\ cfg.stopping_criterion = "MAX_ITER_PROBABILITY_AND_DICE"
  /\ log.stop = "DICE_PROBABILITY"
  /\ iteration = 1
  /\ log.draws = <<<<0, "last_dice_loss">>, <<1, "last_dice_loss">>>>

\* a systematic error fired for the label k and no click noise moved its point
SystematicPoint(k) ==
  /\ pc = "addsignal"
  /\ <<k, "systematic">> \in log.fired
  /\ <<k, "noise">> \notin log.fired

\* the background voxels between the bands whose intensity exceeds the mean
\* intensity inside the foreground label
HighUptakeAbove(img, lab) ==
  LET inside == {v \in DOMAIN lab : lab[v] = 1}
      total == Sum([v \in inside |-> img[1][v]])
      depth == Depth(lab)
  IN [v \in DOMAIN lab |->
        IF /\ inside # {}
           /\ lab[v] = 0
           /\ img[1][v] * Cardinality(inside) > total
           /\ InBand(v, depth)
        THEN 1 ELSE 0]

\* C22, as stated: the point of a systematic error lies at a background
\* voxel of the biased region, flagged in the uncertainty map or with an
\* intensity exceeding the mean intensity inside the foreground label, at a
\* depth d with 80 <= d < D - 40.
C22_AsStated ==
  \A k \in Keys \ {"background"} :
    SystematicPoint(k)
      => LET v == Spatial(AppendedPoint(k))
         IN /\ label[v] = 0
            /\ v[3] >= 80 /\ v[3] < Depth(label) - 40
            /\ cfg.uncertainty_based => uncertainty[v] = 1
            /\ cfg.intensity_based => HighUptakeAbove(image, label)[v] = 1

\* C22, amended: the point of a systematic error, before any click noise,
\* lies at a background voxel at a depth d with 80 <= d < D - 40, that is
\* flagged in the uncertainty map (uncertainty-based), whose intensity is at
\* least the mean intensity over the voxels of label value 1
\* (intensity-based), or both when both variants are enabled; a systematic
\* error never fires for the background.
C22_BiasedRegion ==
  /\ <<"background", "systematic">> \notin log.fired
  /\ \A k \in Keys \ {"background"} :
       SystematicPoint(k)
         => LET v == Spatial(AppendedPoint(k))
                inside == {u \in DOMAIN label : label[u] = 1}
            IN /\ v \in DOMAIN label
               /\ label[v] = 0
               /\ v[3] >= 80 /\ v[3] < Depth(label) - 40
               /\ cfg.uncertainty_based => uncertainty[v] = 1
               /\ cfg.intensity_based
                    => /\ inside # {}
                       /\ image[1][v] * Cardinality(inside)
                            >= Sum([u \in inside |-> image[1][u]])

\* C22, the case: both variants enabled, and the tumor's point replaced by a
\* flagged background voxel of slice 81 whose intensity is above the mean.
C22_Witness ==
  /\ cfg.uncertainty_based /\ cfg.intensity_based
  /\ SystematicPoint("tumor")
  /\ AppendedPoint("tumor") = <<0, 0, 0, 81>>
  /\ HighUptakeAbove(image, label)[<<0, 0, 81>>] = 1
  /\ uncertainty[<<0, 0, 81>>] = 1

====
